---- MODULE Spec2Model ----
(***************************************************************************)
(* A model of toy_robot_on_grid: a robot on a square grid, driven by the   *)
(* text lines of a command file.                                           *)
(*                                                                         *)
(* Text is modelled as a sequence of chunks. A chunk is either one         *)
(* character (" ", ",", "\n", a digit, "-", "X") or one of the words of     *)
(* WordChunks, which stands for exactly that run of letters. No word is a   *)
(* concatenation of other chunks, so two chunk sequences are equal iff the  *)
(* strings they stand for are equal.                                        *)
(***************************************************************************)
EXTENDS Integers, Sequences, FiniteSets, TLC

\* ------------------------------------------------------------ state
VARIABLES
    grid,         \* Robot._grid: the SquareGrid, [size, neighbours, raised]
    coordinates,  \* Robot._coordinates, NoCoordinates until placed
    direction,    \* Robot._direction, None until placed
    commands,     \* StubFileCommandReceiver._commands: the lines not yet read
    command,      \* spin's local: the command recv returned last
    pc,           \* where spin is: "recv", "execute", "done", "crashed"
    output,       \* every line printed so far, in order
    line,         \* the line recv popped last
    before,       \* the robot's fields and the number of lines printed when
                  \* the last execute call began
    result,       \* the last execute call's return value, or the exception
                  \* the last call raised
    reported,     \* history: the robot's fields at each Report executed
                  \* while the robot was placed, in execution order
    counts,       \* history: the lines recv has read, the number of
                  \* lines the file had, of recv calls and of execute
                  \* calls so far, and whether an execute call of a Place
                  \* has returned true
    query         \* the last call made directly on a grid or a Direction,
                  \* with its arguments and what it returned

\* ------------------------------------------------------------------ bounds
\* Grid sides 0..MaxSize are explored.
MaxSize == 2
\* The command file has at most MaxLines lines.
MaxLines == 3
\* Every chunk sequence of at most MaxLineLen chunks is a possible line.
MaxLineLen == 2
\* Up to MaxChain properties of a Direction are applied one after another.
MaxChain == 4
MaxCells == 3     \* cells made by Cell(x, 0), outside any grid
MaxSets == 3      \* set_neighbour calls made on them
MaxObjects == 4   \* Coordinates objects made in a run of direct calls

None == "None"
\* Python's None where Coordinates are expected, and where a Cell is.
NoCoordinates == <<>>
NoCell == <<>>

\* ------------------------------------------------------------ utils.py
Direction == {"WEST", "EAST", "NORTH", "SOUTH"}

opposite(d) ==
    CASE d = "WEST" -> "EAST"
      [] d = "EAST" -> "WEST"
      [] d = "NORTH" -> "SOUTH"
      [] d = "SOUTH" -> "NORTH"

counter_clockwise_as_opposite(d) == opposite(d)

counter_clockwise(d) ==
    CASE d = "WEST" -> "SOUTH"
      [] d = "SOUTH" -> "EAST"
      [] d = "EAST" -> "NORTH"
      [] d = "NORTH" -> "WEST"

clockwise_swapped(d) == counter_clockwise(d)

clockwise(d) ==
    CASE d = "WEST" -> "NORTH"
      [] d = "NORTH" -> "EAST"
      [] d = "EAST" -> "SOUTH"
      [] d = "SOUTH" -> "WEST"

\* The dataclass Coordinates, as the pair of its fields x and y.
Coordinates(x, y) == <<x, y>>
xOf(c) == c[1]
yOf(c) == c[2]

\* ------------------------------------------------------------- grid.py
\* The cells of SquareGrid(size), named by their place in self._cells.
CellIds(size) == (0 .. size - 1) \X (0 .. size - 1)

\* Cell.__init__ for every cell: no neighbours yet. raised records that a
\* set_neighbour call raised RuntimeError.
NoNeighbours(size) ==
    [neighbours |-> [c \in CellIds(size) |-> [d \in Direction |-> NoCell]],
     raised |-> FALSE]

set_neighbour_one_way(cs, a, b, d) ==
    IF cs.raised THEN cs
    ELSE IF cs.neighbours[a][d] # NoCell THEN [cs EXCEPT !.raised = TRUE]
    ELSE [cs EXCEPT !.neighbours[a][d] = b]

\* Cell.set_neighbour on the cells cs: cell a gets neighbour b in direction
\* d, and b gets a in the opposite direction. It raises RuntimeError when a
\* already has a neighbour in direction d.
set_neighbour(cs, a, b, d) ==
    IF cs.raised THEN cs
    ELSE IF cs.neighbours[a][d] # NoCell THEN [cs EXCEPT !.raised = TRUE]
    ELSE [cs EXCEPT !.neighbours[a][d] = b,
                    !.neighbours[b][opposite(d)] = a]

\* SquareGrid._initialize_neighbors: the double loop over x and y, as one
\* loop over k = x * size + y.
RECURSIVE InitializeFrom(_, _, _)
InitializeFrom(cs, size, k) ==
    IF k >= size * size THEN cs
    ELSE LET x == k \div size
             y == k % size
             cell == <<x, y>>
             east == IF x < size - 1
                     THEN set_neighbour(cs, cell, <<x + 1, y>>, "EAST")
                     ELSE cs
             north == IF y < size - 1
                      THEN set_neighbour(east, cell, <<x, y + 1>>, "NORTH")
                      ELSE east
         IN InitializeFrom(north, size, k + 1)

initialize_neighbors(size) == InitializeFrom(NoNeighbours(size), size, 0)

\* SquareGrid.__init__
SquareGrid(size) ==
    LET cs == initialize_neighbors(size)
    IN [size |-> size, neighbours |-> cs.neighbours, raised |-> cs.raised]

\* Python's list indexing self._cells[i]: an index outside -size..size-1
\* raises IndexError, a negative index counts from the end.
IndexInRange(i, size) == i >= -size /\ i < size
ListIndex(i, size) == IF i < 0 THEN i + size ELSE i

\* Cell.get_coordinates of the cell stored at self._cells[x][y].
get_coordinates(cell) == Coordinates(cell[1], cell[2])

get_next_cell_coordinates_stay(g, c, d) ==
    IF ~IndexInRange(xOf(c), g.size)
       \/ ~IndexInRange(yOf(c), g.size)
    THEN "IndexError"
    ELSE LET cell == <<ListIndex(xOf(c), g.size),
                       ListIndex(yOf(c), g.size)>>
             next_cell == g.neighbours[cell][d]
         IN IF next_cell = NoCell THEN get_coordinates(cell)
            ELSE get_coordinates(next_cell)

\* SquareGrid.get_next_cell_coordinates: the neighbour's coordinates, None
\* when there is no neighbour, "IndexError" when the list indexing raises.
get_next_cell_coordinates(g, c, d) ==
    IF ~IndexInRange(xOf(c), g.size)
       \/ ~IndexInRange(yOf(c), g.size)
    THEN "IndexError"
    ELSE LET cell == <<ListIndex(xOf(c), g.size),
                       ListIndex(yOf(c), g.size)>>
             next_cell == g.neighbours[cell][d]
         IN IF next_cell = NoCell THEN NoCoordinates
            ELSE get_coordinates(next_cell)

is_valid_cell_inclusive(g, c) ==
    xOf(c) <= g.size /\ yOf(c) <= g.size

\* SquareGrid.is_valid_cell
is_valid_cell(g, c) ==
    xOf(c) < g.size /\ yOf(c) < g.size

\* ------------------------------------------------------------ text
Space == " "
Comma == ","
Newline == "\n"
Minus == "-"

\* The characters "0".."9"; the digit at index i stands for i - 1.
DecimalDigits == <<"0", "1", "2", "3", "4", "5", "6", "7", "8", "9">>
DecimalChars == {DecimalDigits[i] : i \in DOMAIN DecimalDigits}
\* U+00B2, a character str.isdigit accepts and int() rejects.
SuperscriptTwo == "SUPERSCRIPT TWO"
DigitChars == DecimalChars \cup {SuperscriptTwo}

DigitValue(ch) == (CHOOSE i \in DOMAIN DecimalDigits : DecimalDigits[i] = ch) - 1

\* str(n) for an integer n.
RECURSIVE NatToStr(_)
NatToStr(n) ==
    IF n < 10 THEN <<DecimalDigits[n + 1]>>
    ELSE Append(NatToStr(n \div 10), DecimalDigits[(n % 10) + 1])

IntToStr(n) == IF n < 0 THEN <<Minus>> \o NatToStr(-n) ELSE NatToStr(n)

\* str.isdigit: at least one character, and every character a digit.
isdigit(s) == Len(s) > 0 /\ \A i \in DOMAIN s : s[i] \in DigitChars

\* int(s) for a string that passed isdigit: it raises ValueError unless
\* every character is a decimal digit (IsDecimal).
RECURSIVE DecimalValue(_)
DecimalValue(s) ==
    IF s = <<>> THEN 0
    ELSE 10 * DecimalValue(SubSeq(s, 1, Len(s) - 1)) + DigitValue(s[Len(s)])

IsDecimal(s) == \A i \in DOMAIN s : s[i] \in DecimalChars

int(s) == DecimalValue(s)

\* str.split(sep) with a one-character separator: the fields between the
\* separators, empty fields included; always at least one field.
RECURSIVE SplitFrom(_, _, _, _)
SplitFrom(s, sep, i, field) ==
    IF i > Len(s) THEN <<field>>
    ELSE IF s[i] = sep THEN <<field>> \o SplitFrom(s, sep, i + 1, <<>>)
    ELSE SplitFrom(s, sep, i + 1, Append(field, s[i]))

split(s, sep) == SplitFrom(s, sep, 1, <<>>)

\* str.strip(ch): ch removed from both ends.
RECURSIVE strip(_, _)
strip(s, ch) ==
    IF s = <<>> THEN s
    ELSE IF s[1] = ch THEN strip(Tail(s), ch)
    ELSE IF s[Len(s)] = ch THEN strip(SubSeq(s, 1, Len(s) - 1), ch)
    ELSE s

\* ------------------------------------------------------- toy_robot.py
RobotRotation == {"RIGHT", "LEFT"}

\* The command classes, as records tagged with the class.
NopRobotCommand == [type |-> "Nop"]
PlaceRobotCommand(c, d) ==
    [type |-> "Place", coordinates |-> c, direction |-> d]
MoveRobotCommand == [type |-> "Move"]
TurnRobotCommand(robot_rotation) ==
    [type |-> "Turn", robot_rotation |-> robot_rotation]
ReportRobotCommand == [type |-> "Report"]
\* recv's None: no command.
NoCommand == [type |-> "None"]

\* Robot.is_on_grid, on the robot's fields r = [coordinates, direction].
is_on_grid(r) == r.coordinates # NoCoordinates /\ r.direction # None

\* What an execute call does: its return value (or the exception it
\* raises), the robot's fields afterwards, and the lines it prints.
Returned(ret, c, d, out) ==
    [ret |-> ret, raised |-> None, coordinates |-> c, direction |-> d,
     out |-> out]
Raised(exception, r) ==
    [ret |-> FALSE, raised |-> exception, coordinates |-> r.coordinates,
     direction |-> r.direction, out |-> <<>>]

\* A diagnostic line is kept as its fixed text; a value formatted into it
\* is kept as this mark.
Formatted == "{}"

NopExecute_unplaces(g, r, cmd) == Returned(TRUE, NoCoordinates, None, <<>>)

\* NopRobotCommand.execute
NopExecute(g, r, cmd) == Returned(TRUE, r.coordinates, r.direction, <<>>)

PlaceExecute_clears_on_invalid(g, r, cmd) ==
    IF is_valid_cell(g, cmd.coordinates)
    THEN Returned(TRUE, cmd.coordinates, cmd.direction, <<>>)
    ELSE Returned(FALSE, NoCoordinates, None,
                  << <<"Cell with coordinates ", Formatted, " not valid.">> >>)

PlaceExecute_keeps_direction(g, r, cmd) ==
    IF is_valid_cell(g, cmd.coordinates)
    THEN Returned(TRUE, cmd.coordinates, r.direction, <<>>)
    ELSE Returned(FALSE, r.coordinates, r.direction,
                  << <<"Cell with coordinates ", Formatted, " not valid.">> >>)

PlaceExecute_sets_before_check(g, r, cmd) ==
    IF is_valid_cell(g, cmd.coordinates)
    THEN Returned(TRUE, cmd.coordinates, cmd.direction, <<>>)
    ELSE Returned(FALSE, r.coordinates, cmd.direction,
                  << <<"Cell with coordinates ", Formatted, " not valid.">> >>)

\* PlaceRobotCommand.execute
PlaceExecute(g, r, cmd) ==
    IF is_valid_cell(g, cmd.coordinates)
    THEN Returned(TRUE, cmd.coordinates, cmd.direction, <<>>)
    ELSE Returned(FALSE, r.coordinates, r.direction,
                  << <<"Cell with coordinates ", Formatted, " not valid.">> >>)

MoveExecute_places_unplaced(g, r, cmd) ==
    IF ~is_on_grid(r)
    THEN Returned(TRUE, <<0, 0>>, "NORTH", <<>>)
    ELSE LET next == get_next_cell_coordinates(g, r.coordinates, r.direction)
         IN IF next = "IndexError" THEN Raised("IndexError", r)
            ELSE IF next = NoCoordinates
            THEN Returned(FALSE, r.coordinates, r.direction, <<>>)
            ELSE Returned(TRUE, next, r.direction, <<>>)

MoveExecute_turns_at_boundary(g, r, cmd) ==
    IF ~is_on_grid(r)
    THEN Returned(FALSE, r.coordinates, r.direction,
                  << <<"Robot not yet placed on grid. Move command not possible.">> >>)
    ELSE LET new_coordinates ==
                 get_next_cell_coordinates(g, r.coordinates, r.direction)
         IN IF new_coordinates = "IndexError" THEN Raised("IndexError", r)
            ELSE IF new_coordinates = NoCoordinates
            THEN Returned(FALSE, r.coordinates, opposite(r.direction), <<>>)
            ELSE Returned(TRUE, new_coordinates, r.direction, <<>>)

MoveExecute_backwards(g, r, cmd) ==
    IF ~is_on_grid(r)
    THEN Returned(FALSE, r.coordinates, r.direction,
                  << <<"Robot not yet placed on grid. Move command not possible.">> >>)
    ELSE LET new_coordinates ==
                 get_next_cell_coordinates(g, r.coordinates,
                                           opposite(r.direction))
         IN IF new_coordinates = "IndexError" THEN Raised("IndexError", r)
            ELSE IF new_coordinates = NoCoordinates
            THEN Returned(FALSE, r.coordinates, r.direction, <<>>)
            ELSE Returned(TRUE, new_coordinates, r.direction, <<>>)

\* MoveRobotCommand.execute
MoveExecute(g, r, cmd) ==
    IF ~is_on_grid(r)
    THEN Returned(FALSE, r.coordinates, r.direction,
                  << <<"Robot not yet placed on grid. Move command not possible.">> >>)
    ELSE LET new_coordinates ==
                 get_next_cell_coordinates(g, r.coordinates, r.direction)
         IN IF new_coordinates = "IndexError" THEN Raised("IndexError", r)
            ELSE IF new_coordinates = NoCoordinates
            THEN Returned(FALSE, r.coordinates, r.direction, <<>>)
            ELSE Returned(TRUE, new_coordinates, r.direction, <<>>)

TurnExecute_turns_unplaced(g, r, cmd) ==
    IF ~is_on_grid(r)
    THEN Returned(TRUE, r.coordinates, "NORTH", <<>>)
    ELSE IF cmd.robot_rotation = "RIGHT"
    THEN Returned(TRUE, r.coordinates, clockwise(r.direction), <<>>)
    ELSE Returned(TRUE, r.coordinates, counter_clockwise(r.direction), <<>>)

TurnExecute_always_clockwise(g, r, cmd) ==
    IF ~is_on_grid(r)
    THEN Returned(FALSE, r.coordinates, r.direction,
                  << <<"Robot not yet placed on grid. Turn command not possible.">> >>)
    ELSE Returned(TRUE, r.coordinates, clockwise(r.direction), <<>>)

\* TurnRobotCommand.execute
TurnExecute(g, r, cmd) ==
    IF ~is_on_grid(r)
    THEN Returned(FALSE, r.coordinates, r.direction,
                  << <<"Robot not yet placed on grid. Turn command not possible.">> >>)
    ELSE IF cmd.robot_rotation = "RIGHT"
    THEN Returned(TRUE, r.coordinates, clockwise(r.direction), <<>>)
    ELSE Returned(TRUE, r.coordinates, counter_clockwise(r.direction), <<>>)

\* The line a successful report prints.
ReportLine(c, d) ==
    <<"Output: ">> \o IntToStr(xOf(c)) \o <<Comma>> \o IntToStr(yOf(c))
        \o <<Comma>> \o <<d>>

ReportExecute_reports_twice(g, r, cmd) ==
    IF ~is_on_grid(r)
    THEN Returned(FALSE, r.coordinates, r.direction,
                  << <<"Robot not yet placed on grid.">> >>)
    ELSE Returned(TRUE, r.coordinates, r.direction,
                  <<ReportLine(r.coordinates, r.direction),
                    ReportLine(r.coordinates, r.direction)>>)

ReportExecute_swaps_axes(g, r, cmd) ==
    IF ~is_on_grid(r)
    THEN Returned(FALSE, r.coordinates, r.direction,
                  << <<"Robot not yet placed on grid.">> >>)
    ELSE Returned(TRUE, r.coordinates, r.direction,
                  <<ReportLine(Coordinates(yOf(r.coordinates), xOf(r.coordinates)),
                               r.direction)>>)

ReportExecute_silent_failure(g, r, cmd) ==
    IF ~is_on_grid(r)
    THEN Returned(FALSE, r.coordinates, r.direction, <<>>)
    ELSE Returned(TRUE, r.coordinates, r.direction,
                  <<ReportLine(r.coordinates, r.direction)>>)

\* ReportRobotCommand.execute
ReportExecute(g, r, cmd) ==
    IF ~is_on_grid(r)
    THEN Returned(FALSE, r.coordinates, r.direction,
                  << <<"Robot not yet placed on grid.">> >>)
    ELSE Returned(TRUE, r.coordinates, r.direction,
                  <<ReportLine(r.coordinates, r.direction)>>)

\* ------------------------------------------------- RobotApiHandler
\* What a command generator does: the command it returns, or the exception
\* it raises and the exception's message.
Generated(cmd) == [raised |-> None, msg |-> <<>>, command |-> cmd]
Raises(exception, msg) ==
    [raised |-> exception, msg |-> msg, command |-> NoCommand]

\* Direction.__members__ and RobotRotation.__members__: the member names.
DirectionMembers == {<<d>> : d \in Direction}
RobotRotationMembers == {<<r>> : r \in RobotRotation}

\* RobotApiHandler._generate_place_command. params[n] past the end of the
\* list raises IndexError; int() raises ValueError on a digit that is not
\* decimal, and the message names the literal.
_generate_place_command(data) ==
    IF Len(data) # 2
    THEN Raises("RuntimeError", <<"Invalid place command format.">>)
    ELSE LET params == split(data[2], Comma)
         IN IF ~isdigit(params[1])
            THEN Raises("ValueError", <<"X coordinate in not a digit.">>)
            ELSE IF Len(params) < 2
            THEN Raises("IndexError", <<"list index out of range">>)
            ELSE IF ~isdigit(params[2])
            THEN Raises("ValueError", <<"X coordinate in not a digit.">>)
            ELSE IF Len(params) < 3
            THEN Raises("IndexError", <<"list index out of range">>)
            ELSE IF params[3] \notin DirectionMembers
            THEN Raises("ValueError",
                        <<"Direction provided in command not implemented.">>)
            ELSE IF ~IsDecimal(params[1])
            THEN Raises("ValueError",
                        <<"invalid literal for int() with base 10: '">>
                            \o params[1] \o <<"'">>)
            ELSE IF ~IsDecimal(params[2])
            THEN Raises("ValueError",
                        <<"invalid literal for int() with base 10: '">>
                            \o params[2] \o <<"'">>)
            ELSE Generated(PlaceRobotCommand(
                     Coordinates(int(params[1]), int(params[2])), params[3][1]))

\* RobotApiHandler._generate_turn_command
_generate_turn_command(data) ==
    IF Len(data) # 1
    THEN Raises("RuntimeError", <<"Invalid turn command format.">>)
    ELSE IF data[1] \notin RobotRotationMembers
    THEN Raises("RuntimeError", <<"Invalid robot rotation command.">>)
    ELSE Generated(TurnRobotCommand(data[1][1]))

_generate_move_command_any_remainder(data) == Generated(MoveRobotCommand)

\* RobotApiHandler._generate_move_command
_generate_move_command(data) ==
    IF Len(data) # 1
    THEN Raises("RuntimeError", <<"Invalid move command format.">>)
    ELSE Generated(MoveRobotCommand)

\* RobotApiHandler._generate_report_command
_generate_report_command(data) ==
    IF Len(data) # 1
    THEN Raises("RuntimeError", <<"Invalid report command format.">>)
    ELSE Generated(ReportRobotCommand)

\* RobotApiHandler._initialise: the keys of api_generator_map.
ApiKeys == {<<"PLACE">>, <<"MOVE">>, <<"LEFT">>, <<"RIGHT">>, <<"REPORT">>}

command_generator_ignores_case(data) ==
    IF data[1] = <<"move">> THEN _generate_move_command(data)
    ELSE IF data[1] \notin ApiKeys
    THEN Raises("RuntimeError", <<"Not valid command type.">>)
    ELSE IF data[1] = <<"PLACE">> THEN _generate_place_command(data)
    ELSE IF data[1] = <<"MOVE">> THEN _generate_move_command(data)
    ELSE IF data[1] = <<"REPORT">> THEN _generate_report_command(data)
    ELSE _generate_turn_command(data)

\* api_generator_map.get(data[0], None) called on data; a key that is not
\* in the map raises RuntimeError.
command_generator(data) ==
    IF data[1] \notin ApiKeys
    THEN Raises("RuntimeError", <<"Not valid command type.">>)
    ELSE IF data[1] = <<"PLACE">> THEN _generate_place_command(data)
    ELSE IF data[1] = <<"MOVE">> THEN _generate_move_command(data)
    ELSE IF data[1] = <<"REPORT">> THEN _generate_report_command(data)
    ELSE _generate_turn_command(data)

\* The exception classes `except Exception` catches, among those the body
\* of the try can raise.
CaughtExceptions == {"RuntimeError", "ValueError", "IndexError"}

\* RobotApiHandler.generate_command on a text: the command it returns and
\* the lines it prints, or the exception that escapes it.
generate_command(text) ==
    LET data == split(text, Space)
        g == command_generator(data)
    IN IF g.raised = None
       THEN [command |-> g.command, raised |-> None, out |-> <<>>]
       ELSE IF g.raised \in CaughtExceptions
       THEN [command |-> NopRobotCommand, raised |-> None,
             out |-> << <<"Invalid command format. Exception ", Formatted,
                          ". Command ", Formatted>> >>]
       ELSE [command |-> NoCommand, raised |-> g.raised, out |-> <<>>]

\* ---------------------------------------------------- the text lines
\* The words a line may contain besides single characters.
WordChunks ==
    {"PLACE", "MOVE", "LEFT", "RIGHT", "REPORT", "move"} \cup Direction

Alphabet ==
    {Space, Comma, Minus, "X", SuperscriptTwo} \cup DecimalChars \cup WordChunks

\* Every text of at most MaxLineLen chunks.
ShortLines == UNION {[1 .. n -> Alphabet] : n \in 0 .. MaxLineLen}

\* The fields tried as the X and Y of a PLACE line: every coordinate up to
\* the side of the largest grid, and fields that are no decimal number or
\* have more than one digit.
CoordinateFields ==
    {IntToStr(n) : n \in 0 .. MaxSize}
        \cup {<<>>, <<"X">>, <<Minus, "1">>, <<SuperscriptTwo>>,
              <<"0", "1">>, <<"0", "0">>}

\* The fields tried as the DIRECTION of a PLACE line.
DirectionFields ==
    DirectionMembers \cup {<<>>, <<"X">>, <<"LEFT">>, <<"NORTH", "EAST">>}

\* X,Y,DIRECTION
ThreeFields ==
    {x \o <<Comma>> \o y \o <<Comma>> \o d :
        x \in CoordinateFields, y \in CoordinateFields, d \in DirectionFields}

\* X,Y and X,Y,DIRECTION,EXTRA
OtherFields ==
    {x \o <<Comma>> \o y : x \in CoordinateFields, y \in CoordinateFields}
        \cup {f \o <<Comma>> \o e :
                 f \in ThreeFields, e \in {<<>>, <<"X">>, <<"EAST">>}}

\* The lines that start like a PLACE command.
PlaceLines ==
    {<<"PLACE", Space>> \o f : f \in ThreeFields \cup OtherFields}
        \cup {<<"PLACE", Space>> \o f \o <<Space>> \o t :
                 f \in ThreeFields, t \in {<<>>, <<"MOVE">>}}
        \cup {h \o f : h \in {<<"PLACE", Space, Space>>, <<Space, "PLACE", Space>>,
                              <<"PLACE", Comma>>, <<"MOVE", Space>>},
                       f \in ThreeFields}

\* The lines of a file as readlines returns them: with the newline that
\* ends them, which the last line of a file may lack.
Lines == ShortLines \cup PlaceLines
RawLines == Lines \cup {l \o <<Newline>> : l \in Lines}

\* A line of the file whose text is not fixed: any of RawLines.
AnyLine == <<"AnyLine">>
\* No line popped yet.
NoLine == <<None>>

\* ------------------------------------------- robot_app.py's configuration
\* The side of the grid robot_app.py builds.
AppGridSize == 5

\* The text of a PLACE line for the cell (x, y) and the direction d.
PlaceText(x, y, d) ==
    <<"PLACE", Space>> \o IntToStr(x) \o <<Comma>> \o IntToStr(y)
        \o <<Comma, d>>

\* The lines of the files robot_app.py is run on to the end: a PLACE on
\* each of two opposite corners of the grid, a PLACE beyond the grid, a
\* PLACE with a fourth field, each of the other commands, a line that is
\* no command and a blank line, each ended by its newline.
FileLines ==
    {l \o <<Newline>> :
        l \in {PlaceText(0, 0, "NORTH"),
               PlaceText(AppGridSize - 1, AppGridSize - 1, "EAST"),
               PlaceText(AppGridSize, AppGridSize, "SOUTH"),
               PlaceText(0, 0, "NORTH") \o <<Comma, "EAST">>,
               <<"MOVE">>, <<"LEFT">>, <<"RIGHT">>, <<"REPORT">>,
               <<"move">>, <<>>}}

\* A line of the file whose text is not fixed: any of FileLines.
AnyFileLine == <<"AnyFileLine">>

\* The lines of the end-to-end scenarios: a PLACE on any cell of the grid
\* of robot_app.py in any direction, then one step (a MOVE, a turn or a
\* blank line), then either a REPORT, or two turns and a MOVE.
ScenarioPlaces ==
    {PlaceText(x, y, d) \o <<Newline>> :
        x \in 0 .. AppGridSize - 1, y \in 0 .. AppGridSize - 1,
        d \in Direction}
ScenarioSteps ==
    {l \o <<Newline>> : l \in {<<"MOVE">>, <<"LEFT">>, <<"RIGHT">>, <<>>}}
AnyScenarioPlace == <<"AnyScenarioPlace">>
ScenarioTurns == {l \o <<Newline>> : l \in {<<"LEFT">>, <<"RIGHT">>}}
AnyScenarioStep == <<"AnyScenarioStep">>
AnyScenarioTurn == <<"AnyScenarioTurn">>

\* The texts a line of the file can have.
Texts(l) ==
    IF l = AnyFileLine THEN FileLines
    ELSE IF l = AnyScenarioPlace THEN ScenarioPlaces
    ELSE IF l = AnyScenarioStep THEN ScenarioSteps
    ELSE IF l = AnyScenarioTurn THEN ScenarioTurns
    ELSE {l}

\* What recv's call of generate_command gives on each text a line can have.
GeneratedCommands == {generate_command(strip(l, Newline)) : l \in RawLines}

\* ------------------------------------------------------- the program
vars ==
    <<grid, coordinates, direction, commands, command, pc, output, line,
      before, result, reported, counts, query>>

robot == [coordinates |-> coordinates, direction |-> direction]
Now == [coordinates |-> coordinates, direction |-> direction,
        printed |-> Len(output)]
NoResult == [ret |-> FALSE, raised |-> None]
\* No call made yet on a grid or a Direction.
NoQuery == [op |-> None]

\* robot_app.py up to robot.spin(): a grid, a receiver that has read its
\* file, and Robot.__init__.
Construct(g, file) ==
    /\ grid = g
    /\ coordinates = NoCoordinates
    /\ direction = None
    /\ commands = file
    /\ command = NoCommand
    /\ pc = IF g.raised THEN "crashed" ELSE "recv"
    /\ output = <<>>
    /\ line = NoLine
    /\ before = Now
    /\ result = NoResult
    /\ reported = <<>>
    /\ counts = [file |-> Len(file), recv |-> 0, execute |-> 0,
                 placed |-> FALSE, lines |-> <<>>]
    /\ query = NoQuery

\* A grid of any side up to MaxSize and a file of up to MaxLines lines of
\* any text.
Init ==
    \E size \in 0 .. MaxSize, n \in 0 .. MaxLines :
        Construct(SquareGrid(size), [i \in 1 .. n |-> AnyLine])

\* StubFileCommandReceiver.recv with a line left: the line is popped,
\* stripped of its newline and given to generate_command, whose command
\* spin receives. (generate_command never returns None, so the loop of recv
\* runs once.)
Recv ==
    /\ pc = "recv"
    /\ Len(commands) >= 1
    /\ \E l \in Texts(Head(commands)) :
       \E g \in (IF l = AnyLine THEN GeneratedCommands
                 ELSE {generate_command(strip(l, Newline))}) :
          /\ pc' = IF g.raised = None THEN "execute" ELSE "crashed"
          /\ line' = l
          /\ commands' = Tail(commands)
          /\ command' = g.command
          /\ output' = output \o g.out
          /\ result' = [ret |-> FALSE, raised |-> g.raised]
          /\ counts' = [counts EXCEPT !.recv = @ + 1,
                                      !.lines = Append(@, l)]
    /\ UNCHANGED <<grid, coordinates, direction, before, reported, query>>

RecvNone_without_notice ==
    /\ pc = "recv"
    /\ Len(commands) < 1
    /\ pc' = "done"
    /\ command' = NoCommand
    /\ output' = output
    /\ result' = NoResult
    /\ counts' = [counts EXCEPT !.recv = @ + 1]
    /\ UNCHANGED <<grid, coordinates, direction, commands, line, before,
                   reported, query>>

\* recv with no line left returns None: spin leaves its loop and prints.
RecvNone ==
    /\ pc = "recv"
    /\ Len(commands) < 1
    /\ pc' = "done"
    /\ command' = NoCommand
    /\ output' = Append(output, <<"No more commands to execute...">>)
    /\ result' = NoResult
    /\ counts' = [counts EXCEPT !.recv = @ + 1]
    /\ UNCHANGED <<grid, coordinates, direction, commands, line, before,
                   reported, query>>

Execute_grows_grid(r) ==
    /\ pc' = IF r.raised = None THEN "recv" ELSE "crashed"
    /\ before' = Now
    /\ coordinates' = r.coordinates
    /\ direction' = r.direction
    /\ output' = output \o r.out
    /\ result' = [ret |-> r.ret, raised |-> r.raised]
    /\ counts' = [counts EXCEPT
                     !.execute = @ + 1,
                     !.placed = @ \/ (command.type = "Place" /\ r.ret)]
    /\ grid' = IF command.type = "Place" /\ ~r.ret
               THEN SquareGrid(grid.size + 1) ELSE grid
    /\ UNCHANGED <<commands, command, line, query>>

Execute_halts_on_false(r) ==
    /\ pc' = IF r.raised # None THEN "crashed"
             ELSE IF r.ret THEN "recv" ELSE "done"
    /\ before' = Now
    /\ coordinates' = r.coordinates
    /\ direction' = r.direction
    /\ output' = output \o r.out
    /\ result' = [ret |-> r.ret, raised |-> r.raised]
    /\ counts' = [counts EXCEPT
                     !.execute = @ + 1,
                     !.placed = @ \/ (command.type = "Place" /\ r.ret)]
    /\ UNCHANGED <<grid, commands, command, line, query>>

\* spin's command.execute(self), given what the command's execute does.
Execute(r) ==
    /\ pc' = IF r.raised = None THEN "recv" ELSE "crashed"
    /\ before' = Now
    /\ coordinates' = r.coordinates
    /\ direction' = r.direction
    /\ output' = output \o r.out
    /\ result' = [ret |-> r.ret, raised |-> r.raised]
    /\ counts' = [counts EXCEPT
                     !.execute = @ + 1,
                     !.placed = @ \/ (command.type = "Place" /\ r.ret)]
    /\ UNCHANGED <<grid, commands, command, line, query>>

ExecuteNop ==
    /\ pc = "execute"
    /\ command.type = "Nop"
    /\ Execute(NopExecute(grid, robot, command))
    /\ UNCHANGED reported

ExecutePlace ==
    /\ pc = "execute"
    /\ command.type = "Place"
    /\ Execute(PlaceExecute(grid, robot, command))
    /\ UNCHANGED reported

ExecuteMove ==
    /\ pc = "execute"
    /\ command.type = "Move"
    /\ Execute(MoveExecute(grid, robot, command))
    /\ UNCHANGED reported

ExecuteTurn ==
    /\ pc = "execute"
    /\ command.type = "Turn"
    /\ Execute(TurnExecute(grid, robot, command))
    /\ UNCHANGED reported

ExecuteReport ==
    /\ pc = "execute"
    /\ command.type = "Report"
    /\ Execute(ReportExecute(grid, robot, command))
    /\ reported' = IF is_on_grid(robot) THEN Append(reported, robot)
                    ELSE reported

Next ==
    \/ Recv
    \/ RecvNone
    \/ ExecuteNop
    \/ ExecutePlace
    \/ ExecuteMove
    \/ ExecuteTurn
    \/ ExecuteReport

Spec == Init /\ [][Next]_vars

\* ------------------------------------------------- robot_app.py's runs
\* The lines tried on the grid of robot_app.py: RawLines, and a PLACE line
\* for every coordinate pair up to the side of the grid.
AppLines ==
    RawLines \cup
        {<<"PLACE", Space>> \o IntToStr(x) \o <<Comma>> \o IntToStr(y)
             \o <<Comma, d>> :
            x \in 0 .. AppGridSize, y \in 0 .. AppGridSize, d \in Direction}

\* robot_app.py on a file of one line whose text is fixed from the start,
\* so that `line` holds the text recv read.
AppGrid == SquareGrid(AppGridSize)
InitApp == \E l \in AppLines : Construct(AppGrid, <<l>>)

SpecApp == InitApp /\ [][Next]_vars

\* robot_app.py on a file of up to MaxLines lines, each one of FileLines.
InitFiles ==
    \E n \in 0 .. MaxLines :
        Construct(AppGrid, [i \in 1 .. n |-> AnyFileLine])

\* robot_app.py on the file of an end-to-end scenario: a PLACE line, a
\* step, and then either a REPORT or two turns and a MOVE; the last line
\* has no newline.
ScenarioFiles ==
    {<<AnyScenarioPlace, AnyScenarioStep, <<"REPORT">> >>,
     <<AnyScenarioPlace, AnyScenarioStep, AnyScenarioTurn, AnyScenarioTurn,
       <<"MOVE">> >>}
InitScenario == \E file \in ScenarioFiles : Construct(AppGrid, file)

SpecScenario == InitScenario /\ [][Next]_vars

\* spin is one sequential loop: whenever it can take a step it takes one.
\* (Every step of Next changes pc, so fairness is stated on pc.)
FairSpec == InitFiles /\ [][Next]_vars /\ WF_pc(Next)

\* ------------------------------------- calls on a grid and a Direction
\* The x and y a grid is asked about: from below zero to beyond its side.
QueryRange == -(MaxSize + 1) .. MaxSize + 1

\* A SquareGrid of any side up to MaxSize, no robot running, and one call
\* or one chain of Direction properties to be made.
InitCalls ==
    /\ \E size \in 0 .. MaxSize : grid = SquareGrid(size)
    /\ coordinates = NoCoordinates
    /\ direction = None
    /\ commands = <<>>
    /\ command = NoCommand
    /\ pc = "calls"
    /\ output = <<>>
    /\ line = NoLine
    /\ before = Now
    /\ result = NoResult
    /\ reported = <<>>
    /\ counts = [file |-> 0, recv |-> 0, execute |-> 0, placed |-> FALSE,
                 lines |-> <<>>]
    /\ query = NoQuery

\* What no call on a grid or a Direction changes.
Robot_vars ==
    <<grid, coordinates, direction, commands, command, pc, output, line,
      before, result, reported, counts>>

\* grid.is_valid_cell(Coordinates(x, y))
CallIsValidCell ==
    /\ pc = "calls"
    /\ query = NoQuery
    /\ \E x \in QueryRange, y \in QueryRange :
          query' = [op |-> "is_valid_cell",
                    coordinates |-> Coordinates(x, y),
                    ret |-> is_valid_cell(grid, Coordinates(x, y))]
    /\ UNCHANGED Robot_vars

\* grid.get_next_cell_coordinates(Coordinates(x, y), d)
CallGetNextCellCoordinates ==
    /\ pc = "calls"
    /\ query = NoQuery
    /\ \E x \in QueryRange, y \in QueryRange, d \in Direction :
          query' = [op |-> "get_next_cell_coordinates",
                    coordinates |-> Coordinates(x, y),
                    direction |-> d,
                    ret |-> get_next_cell_coordinates(
                                grid, Coordinates(x, y), d)]
    /\ UNCHANGED Robot_vars

\* A Direction d is taken: start is d, path the properties read from it one
\* after another, ret the Direction they gave.
TakeDirection ==
    /\ pc = "calls"
    /\ query = NoQuery
    /\ \E d \in Direction :
          query' = [op |-> "Direction", start |-> d, path |-> <<>>, ret |-> d]
    /\ UNCHANGED Robot_vars

\* d.opposite of the Direction d last returned
ReadOpposite ==
    /\ pc = "calls"
    /\ query.op = "Direction"
    /\ Len(query.path) < MaxChain
    /\ query' = [query EXCEPT !.path = Append(@, "opposite"),
                              !.ret = opposite(@)]
    /\ UNCHANGED Robot_vars

\* d.clockwise of the Direction d last returned
ReadClockwise ==
    /\ pc = "calls"
    /\ query.op = "Direction"
    /\ Len(query.path) < MaxChain
    /\ query' = [query EXCEPT !.path = Append(@, "clockwise"),
                              !.ret = clockwise(@)]
    /\ UNCHANGED Robot_vars

\* d.counter_clockwise of the Direction d last returned
ReadCounterClockwise ==
    /\ pc = "calls"
    /\ query.op = "Direction"
    /\ Len(query.path) < MaxChain
    /\ query' = [query EXCEPT !.path = Append(@, "counter_clockwise"),
                              !.ret = counter_clockwise(@)]
    /\ UNCHANGED Robot_vars

NextCalls ==
    \/ CallIsValidCell
    \/ CallGetNextCellCoordinates
    \/ TakeDirection
    \/ ReadOpposite
    \/ ReadClockwise
    \/ ReadCounterClockwise

SpecCalls == InitCalls /\ [][NextCalls]_vars

\* ------------------------------------------------ calls on cells
\* The cells Cell(0, 0) .. Cell(MaxCells - 1, 0), made outside any grid.
Cells == {<<x, 0>> : x \in 0 .. MaxCells - 1}

\* The cells as Cell.__init__ leaves them, and no call made on them yet.
InitCells ==
    /\ grid = SquareGrid(0)
    /\ coordinates = NoCoordinates
    /\ direction = None
    /\ commands = <<>>
    /\ command = NoCommand
    /\ pc = "cells"
    /\ output = <<>>
    /\ line = NoLine
    /\ before = Now
    /\ result = NoResult
    /\ reported = <<>>
    /\ counts = [file |-> 0, recv |-> 0, execute |-> 0, placed |-> FALSE,
                 lines |-> <<>>]
    /\ query = [op |-> "Cell", calls |-> 0,
                cells |-> [c \in Cells |-> [d \in Direction |-> NoCell]],
                prev |-> [c \in Cells |-> [d \in Direction |-> NoCell]],
                a |-> NoCell, b |-> NoCell, d |-> None, raised |-> FALSE]

\* a.set_neighbour(b, d) on any two of the cells: prev is the links before
\* the call, cells the links after it, raised whether it raised.
CallSetNeighbour ==
    /\ pc = "cells"
    /\ query.calls < MaxSets
    /\ \E a \in Cells, b \in Cells, d \in Direction :
          LET after == set_neighbour(
                           [neighbours |-> query.cells, raised |-> FALSE],
                           a, b, d)
          IN query' = [op |-> "set_neighbour", calls |-> query.calls + 1,
                       cells |-> after.neighbours, prev |-> query.cells,
                       a |-> a, b |-> b, d |-> d, raised |-> after.raised]
    /\ UNCHANGED Robot_vars

NextCells == CallSetNeighbour

SpecCells == InitCells /\ [][NextCells]_vars

\* ------------------------------------- Coordinates objects and the robot
\* Coordinates is a mutable dataclass, so what a name holds is a reference.
\* The memory m of a run of direct calls: heap[i] is the value <<x, y>> of
\* the i-th Coordinates object made, stored is the object the robot has in
\* self._coordinates (0 for None), held the objects the caller has a
\* reference to: those it made, those the getter returned to it, and so
\* those it gave to the setter or to a Place command.
NoMemory == [heap |-> <<>>, stored |-> 0, held |-> {}]

\* The x and y a caller gives a Coordinates object, on a grid of side 1:
\* (0, 0) is its one cell.
FieldValues == 0 .. 1
AliasGrid == SquareGrid(1)

\* Coordinates(x, y): a new object.
NewCoordinates(m, x, y) == [m EXCEPT !.heap = Append(@, Coordinates(x, y))]

\* The value of the robot's stored coordinates.
StoredValue(m) == IF m.stored = 0 THEN NoCoordinates ELSE m.heap[m.stored]

coordinates_setter_keeps_reference(m, c) == [m EXCEPT !.stored = c]

\* Robot.coordinates, the setter, given the object c: the robot stores a
\* new object with the x and y of c.
coordinates_setter(m, c) ==
    LET made == NewCoordinates(m, xOf(m.heap[c]), yOf(m.heap[c]))
    IN [made EXCEPT !.stored = Len(made.heap)]

\* Robot.coordinates, the getter, on a placed robot: the caller gets a new
\* object with the x and y of the stored one.
coordinates_getter(m) ==
    LET made == NewCoordinates(m, xOf(m.heap[m.stored]),
                               yOf(m.heap[m.stored]))
    IN [made EXCEPT !.held = @ \cup {Len(made.heap)}]

\* A robot on AliasGrid, no Coordinates object made yet.
InitAlias ==
    /\ grid = AliasGrid
    /\ coordinates = NoCoordinates
    /\ direction = None
    /\ commands = <<>>
    /\ command = NoCommand
    /\ pc = "alias"
    /\ output = <<>>
    /\ line = NoLine
    /\ before = Now
    /\ result = NoResult
    /\ reported = <<>>
    /\ counts = [file |-> 0, recv |-> 0, execute |-> 0, placed |-> FALSE,
                 lines |-> <<>>]
    /\ query = [op |-> None, m |-> NoMemory]

\* What no call on the robot's coordinates changes.
Alias_vars ==
    <<grid, commands, command, pc, output, line, before, result, reported,
      counts>>

\* c = Coordinates(x, y) in the caller
MakeCoordinates ==
    /\ pc = "alias"
    /\ Len(query.m.heap) < MaxObjects
    /\ \E x \in FieldValues, y \in FieldValues :
          LET made == NewCoordinates(query.m, x, y)
          IN query' = [op |-> "Coordinates",
                       m |-> [made EXCEPT !.held = @ \cup {Len(made.heap)}]]
    /\ UNCHANGED <<coordinates, direction>>
    /\ UNCHANGED Alias_vars

\* c = robot.coordinates in the caller
GetCoordinates ==
    /\ pc = "alias"
    /\ Len(query.m.heap) < MaxObjects
    /\ query' = [op |-> "get",
                 m |-> IF query.m.stored = 0 THEN query.m
                       ELSE coordinates_getter(query.m)]
    /\ UNCHANGED <<coordinates, direction>>
    /\ UNCHANGED Alias_vars

\* robot.coordinates = c in the caller, c an object it holds
SetCoordinates ==
    /\ pc = "alias"
    /\ Len(query.m.heap) < MaxObjects
    /\ \E c \in query.m.held :
          /\ query' = [op |-> "set", m |-> coordinates_setter(query.m, c)]
          /\ coordinates' = StoredValue(query'.m)
    /\ UNCHANGED direction
    /\ UNCHANGED Alias_vars

\* PlaceRobotCommand(c, d).execute(robot) in the caller: the command keeps
\* the reference c and gives it to the setter when the cell is valid.
PlaceHeld ==
    /\ pc = "alias"
    /\ Len(query.m.heap) < MaxObjects
    /\ \E c \in query.m.held, d \in Direction :
          IF is_valid_cell(grid, query.m.heap[c])
          THEN /\ query' = [op |-> "place",
                            m |-> coordinates_setter(query.m, c)]
               /\ coordinates' = StoredValue(query'.m)
               /\ direction' = d
          ELSE /\ query' = [op |-> "place", m |-> query.m]
               /\ UNCHANGED <<coordinates, direction>>
    /\ UNCHANGED Alias_vars

\* c.x = v or c.y = v in the caller, c an object it holds
MutateHeld ==
    /\ pc = "alias"
    /\ \E c \in query.m.held, i \in 1 .. 2, v \in FieldValues :
          /\ query' = [op |-> "mutate",
                       m |-> [query.m EXCEPT !.heap[c][i] = v]]
          /\ coordinates' = StoredValue(query'.m)
    /\ UNCHANGED direction
    /\ UNCHANGED Alias_vars

NextAlias ==
    \/ MakeCoordinates
    \/ GetCoordinates
    \/ SetCoordinates
    \/ PlaceHeld
    \/ MutateHeld

SpecAlias == InitAlias /\ [][NextAlias]_vars

\* ----------------------------------------------------------- properties
\* The last step was the execute call of a command of class t.
Executed(t) == command.type = t /\ pc \in {"recv", "crashed"}

\* Two values of the coordinates field are the same: both absent, or the
\* same pair.
Same(a, b) ==
    IF a = NoCoordinates THEN NoCoordinates = b
    ELSE IF NoCoordinates = b THEN FALSE
    ELSE a = b

\* The lines the last execute call printed.
Emitted == SubSeq(output, before.printed + 1, Len(output))

\* The cell one step from c in direction d, by arithmetic on the lattice.
Ahead(c, d) ==
    CASE d = "EAST" -> <<xOf(c) + 1, yOf(c)>>
      [] d = "WEST" -> <<xOf(c) - 1, yOf(c)>>
      [] d = "NORTH" -> <<xOf(c), yOf(c) + 1>>
      [] d = "SOUTH" -> <<xOf(c), yOf(c) - 1>>

\* c names a cell of the grid: 0 <= x < n and 0 <= y < n.
InsideGrid(c) ==
    /\ 0 <= xOf(c) /\ xOf(c) < grid.size
    /\ 0 <= yOf(c) /\ yOf(c) < grid.size

\* C1: whatever the lines of the file, the robot is at every moment either
\* unplaced or on a cell with 0 <= x < n and 0 <= y < n, and neither the
\* construction, the parsing nor the execution of a command raises.
C1_StaysOnGrid ==
    /\ pc # "crashed"
    /\ result.raised = None
    /\ coordinates # NoCoordinates => InsideGrid(coordinates)

\* C1's case: a placed robot whose Move was refused at the edge of the grid.
C1_Witness ==
    /\ Executed("Move")
    /\ ~result.ret
    /\ coordinates # NoCoordinates
    /\ ~InsideGrid(Ahead(coordinates, direction))

\* C2: Place returns true iff is_valid_cell holds of its coordinates, and
\* when it returns true the robot has the command's coordinates and
\* direction, whatever it had before.
C2_PlaceSucceeds ==
    Executed("Place") =>
        /\ result.ret <=> is_valid_cell(grid, command.coordinates)
        /\ result.ret => /\ Same(coordinates, command.coordinates)
                         /\ direction = command.direction

\* C2's case: a robot already placed is placed on another cell, facing
\* another way.
C2_Witness ==
    /\ Executed("Place")
    /\ result.ret
    /\ before.coordinates # NoCoordinates
    /\ ~Same(before.coordinates, coordinates)
    /\ before.direction # direction

\* C3: Place on coordinates that are not a valid cell returns false and
\* leaves coordinates and direction as they were.
C3_PlaceFails ==
    (Executed("Place") /\ ~is_valid_cell(grid, command.coordinates)) =>
        /\ ~result.ret
        /\ Same(coordinates, before.coordinates)
        /\ direction = before.direction

\* C3's case: a placed robot is given a Place outside the grid, facing
\* another way.
C3_Witness ==
    /\ Executed("Place")
    /\ ~is_valid_cell(grid, command.coordinates)
    /\ before.coordinates # NoCoordinates
    /\ before.direction # command.direction

\* C4: Move returns true iff the robot is placed and the grid has a
\* neighbour in its direction; then the robot is on that neighbour, which
\* is the cell one step ahead, and faces the same way.
C4_MoveSucceeds ==
    Executed("Move") =>
        LET placed == is_on_grid(before)
            next == IF placed
                    THEN get_next_cell_coordinates(
                             grid, before.coordinates, before.direction)
                    ELSE NoCoordinates
        IN /\ result.raised = None
           /\ result.ret <=> (placed /\ next # NoCoordinates)
           /\ result.ret =>
                 /\ Same(coordinates, next)
                 /\ Same(coordinates, Ahead(before.coordinates, before.direction))
                 /\ direction = before.direction

\* C4's case: a Move that moved the robot.
C4_Witness ==
    /\ Executed("Move")
    /\ result.ret
    /\ ~Same(coordinates, before.coordinates)

\* C5: a Move of a robot that is not placed, or that faces the edge of the
\* grid, returns false; a Move that returns false leaves coordinates and
\* direction as they were.
C5_MoveFails ==
    Executed("Move") =>
        LET blocked ==
                \/ ~is_on_grid(before)
                \/ ~InsideGrid(Ahead(before.coordinates, before.direction))
        IN /\ blocked => ~result.ret
           /\ ~result.ret => /\ Same(coordinates, before.coordinates)
                             /\ direction = before.direction

\* C5's case: a placed robot facing the edge was told to move, with lines
\* of the file still to come.
C5_Witness ==
    /\ Executed("Move")
    /\ ~result.ret
    /\ is_on_grid(before)
    /\ ~InsideGrid(Ahead(coordinates, direction))
    /\ Len(commands) >= 1

\* C6: Turn returns true iff the robot is placed; then the direction is
\* clockwise of the old one for RIGHT and counter_clockwise of it for LEFT;
\* when it returns false the direction is as it was; the coordinates are as
\* they were in both cases.
C6_Turn ==
    Executed("Turn") =>
        /\ result.ret <=> is_on_grid(before)
        /\ Same(coordinates, before.coordinates)
        /\ result.ret =>
              direction = IF command.robot_rotation = "RIGHT"
                          THEN clockwise(before.direction)
                          ELSE counter_clockwise(before.direction)
        /\ ~result.ret => direction = before.direction

\* C6's case: a placed robot turned LEFT.
C6_Witness ==
    /\ Executed("Turn")
    /\ result.ret
    /\ command.robot_rotation = "LEFT"
    /\ direction = counter_clockwise(before.direction)

\* The text `Output: <x>,<y>,<DIRECTION_NAME>` for one-digit x and y.
OutputLine(r) ==
    <<"Output: ", DecimalDigits[xOf(r.coordinates) + 1], ",",
      DecimalDigits[yOf(r.coordinates) + 1], ",", r.direction>>

\* The lines of the output that start with `Output: `, in order.
OutputLines == SelectSeq(output, LAMBDA l : Len(l) >= 1 /\ l[1] = "Output: ")

\* C7: Report returns true iff the robot is placed; a successful Report
\* prints exactly the one line `Output: x,y,DIRECTION` of the robot's
\* coordinates and direction; no Report changes coordinates or direction;
\* and the `Output: ` lines of the whole output are, in order, the lines of
\* the Reports executed while the robot was placed.
C7_Report ==
    /\ Executed("Report") =>
          /\ result.ret <=> is_on_grid(before)
          /\ result.ret => Emitted = <<OutputLine(before)>>
          /\ Same(coordinates, before.coordinates)
          /\ direction = before.direction
    /\ Len(OutputLines) = Len(reported)
    /\ \A i \in DOMAIN reported : OutputLines[i] = OutputLine(reported[i])

\* C7's case: the second successful Report of a run, of a robot whose x
\* and y differ.
C7_Witness ==
    /\ Executed("Report")
    /\ result.ret
    /\ Len(reported) = 2
    /\ xOf(coordinates) # yOf(coordinates)

\* C8 as stated: Report on a robot that is not placed returns false and
\* writes no line of any kind.
C8_Original ==
    (Executed("Report") /\ ~is_on_grid(before)) =>
        /\ ~result.ret
        /\ Len(output) = before.printed

\* C8: Report on a robot that is not placed returns false, writes no
\* `Output: ` line, and writes the one line `Robot not yet placed on grid.`
C8_ReportUnplaced ==
    (Executed("Report") /\ ~is_on_grid(before)) =>
        /\ ~result.ret
        /\ Emitted = << <<"Robot not yet placed on grid.">> >>
        /\ \A i \in DOMAIN Emitted : Emitted[i][1] # "Output: "

\* C8's case: a Report was executed before any Place had succeeded.
C8_Witness ==
    /\ Executed("Report")
    /\ ~is_on_grid(before)
    /\ ~result.ret

\* C9: Nop returns true and leaves coordinates, direction and the output
\* as they were, whether the robot is placed or not.
C9_Nop ==
    Executed("Nop") =>
        /\ result.ret
        /\ result.raised = None
        /\ Same(coordinates, before.coordinates)
        /\ direction = before.direction
        /\ Len(output) = before.printed

\* C9's case: a Nop executed by a placed robot.
C9_Witness ==
    /\ Executed("Nop")
    /\ is_on_grid(before)
    /\ result.ret

\* The grammar of a command line: MOVE, LEFT, RIGHT or REPORT alone, or
\* `PLACE X,Y,DIRECTION` with X and Y unsigned decimal integers and
\* DIRECTION one of WEST, EAST, NORTH, SOUTH.
WellFormed(text) ==
    \/ text \in {<<"MOVE">>, <<"LEFT">>, <<"RIGHT">>, <<"REPORT">>}
    \/ /\ Len(text) >= 7
       /\ text[1] = "PLACE"
       /\ text[2] = Space
       /\ text[Len(text) - 1] = Comma
       /\ text[Len(text)] \in Direction
       /\ LET xy == split(SubSeq(text, 3, Len(text) - 2), Comma)
          IN /\ Len(xy) = 2
             /\ \A i \in 1 .. 2 : Len(xy[i]) >= 1 /\ IsDecimal(xy[i])

\* C10: generate_command returns a command for every line and never
\* raises, and for every line that is not a well-formed command the
\* command is Nop, which leaves the robot as it was.
C10_BadLineYieldsNop ==
    /\ result.raised = None
    /\ (line # NoLine /\ pc # "done") =>
          /\ command.type \in {"Place", "Move", "Turn", "Report", "Nop"}
          /\ ~WellFormed(strip(line, Newline)) =>
                /\ command.type = "Nop"
                /\ coordinates = NoCoordinates
                /\ direction = None

\* The text recv gave to generate_command, once a line has been read and
\* while the command made from it is still spin's command.
LineRead == line # NoLine /\ pc # "done"
Text == strip(line, Newline)

\* The keyword of a text: what stands before its first space.
Keyword(text) == split(text, Space)[1]

\* The remainder of a PLACE line is one space-free token of exactly three
\* comma-separated fields: two non-empty runs of decimal digits and the
\* name of a Direction.
ThreeFieldPlace(text) ==
    LET data == split(text, Space)
    IN /\ Len(data) = 2
       /\ LET f == split(data[2], Comma)
          IN /\ Len(f) = 3
             /\ Len(f[1]) >= 1 /\ IsDecimal(f[1])
             /\ Len(f[2]) >= 1 /\ IsDecimal(f[2])
             /\ f[3] \in {<<d>> : d \in Direction}

\* C11: a line whose keyword is PLACE yields Place(Coordinates(x,y), DIR)
\* if its remainder is one token of exactly the three fields x,y,DIR, and
\* yields Nop in every other case.
C11_PlaceLine ==
    (LineRead /\ Keyword(Text) = <<"PLACE">>) =>
        IF ThreeFieldPlace(Text)
        THEN LET f == split(split(Text, Space)[2], Comma)
             IN /\ command.type = "Place"
                /\ command.coordinates
                       = <<DecimalValue(f[1]), DecimalValue(f[2])>>
                /\ command.direction = f[3][1]
        ELSE command.type = "Nop"

\* C12: the bare lines MOVE, LEFT, RIGHT and REPORT yield Move, Turn(LEFT),
\* Turn(RIGHT) and Report, and any of these keywords followed by a space
\* and anything, or nothing, after it yields Nop.
C12_BareKeywords ==
    LineRead =>
        /\ Text = <<"MOVE">> => command.type = "Move"
        /\ Text = <<"LEFT">> =>
              command.type = "Turn" /\ command.robot_rotation = "LEFT"
        /\ Text = <<"RIGHT">> =>
              command.type = "Turn" /\ command.robot_rotation = "RIGHT"
        /\ Text = <<"REPORT">> => command.type = "Report"
        /\ ( /\ Keyword(Text) \in
                    {<<"MOVE">>, <<"LEFT">>, <<"RIGHT">>, <<"REPORT">>}
             /\ Text # Keyword(Text) ) => command.type = "Nop"

\* C12's case: the line `MOVE ` with its empty remainder gave Nop.
C12_Witness ==
    /\ LineRead
    /\ pc = "execute"
    /\ Text = <<"MOVE", Space>>
    /\ command.type = "Nop"

\* C13: a line whose keyword is none of PLACE, MOVE, LEFT, RIGHT, REPORT,
\* compared case-sensitively, yields Nop.
C13_UnknownKeyword ==
    ( /\ LineRead
      /\ Keyword(Text) \notin {<<"PLACE">>, <<"MOVE">>, <<"LEFT">>,
                               <<"RIGHT">>, <<"REPORT">>} )
        => command.type = "Nop"

\* C13's case: the lower-case line `move` gave Nop.
C13_Witness ==
    /\ LineRead
    /\ pc = "execute"
    /\ Text = <<"move">>
    /\ command.type = "Nop"

\* C14: on a grid of side n > 0, is_valid_cell(Coordinates(x, y)) is true
\* iff 0 <= x < n and 0 <= y < n, for every integer x and y: false for x or
\* y equal to n, false for negative x or y.
C14_ValidIffInside ==
    (query.op = "is_valid_cell" /\ grid.size > 0) =>
        (query.ret <=> InsideGrid(query.coordinates))

\* C15: for a cell (x, y) of the grid, get_next_cell_coordinates gives
\* (x+1, y) for EAST if x+1 < n, (x-1, y) for WEST if x > 0, (x, y+1) for
\* NORTH if y+1 < n, (x, y-1) for SOUTH if y > 0, and None at each of the
\* four edges.
C15_NextCell ==
    (query.op = "get_next_cell_coordinates" /\ InsideGrid(query.coordinates))
        => LET x == xOf(query.coordinates)
               y == yOf(query.coordinates)
               n == grid.size
               expected ==
                   CASE query.direction = "EAST" ->
                            IF x + 1 < n THEN <<x + 1, y>> ELSE NoCoordinates
                     [] query.direction = "WEST" ->
                            IF x > 0 THEN <<x - 1, y>> ELSE NoCoordinates
                     [] query.direction = "NORTH" ->
                            IF y + 1 < n THEN <<x, y + 1>> ELSE NoCoordinates
                     [] query.direction = "SOUTH" ->
                            IF y > 0 THEN <<x, y - 1>> ELSE NoCoordinates
           IN Same(query.ret, expected)

\* C15's case: the grid was asked for the cell WEST of its last column's
\* top cell, and gave the cell one column to the left.
C15_Witness ==
    /\ query.op = "get_next_cell_coordinates"
    /\ grid.size >= 2
    /\ query.coordinates = <<grid.size - 1, grid.size - 1>>
    /\ query.direction = "WEST"
    /\ Same(query.ret, <<grid.size - 2, grid.size - 1>>)

\* The 4-cycle NORTH -> EAST -> SOUTH -> WEST -> NORTH.
CycleNext ==
    [d \in Direction |->
        CASE d = "NORTH" -> "EAST"
          [] d = "EAST" -> "SOUTH"
          [] d = "SOUTH" -> "WEST"
          [] d = "WEST" -> "NORTH"]

\* NORTH <-> SOUTH, EAST <-> WEST.
Facing ==
    [d \in Direction |->
        CASE d = "NORTH" -> "SOUTH"
          [] d = "SOUTH" -> "NORTH"
          [] d = "EAST" -> "WEST"
          [] d = "WEST" -> "EAST"]

Notices ==
    SelectSeq(output, LAMBDA l : l = <<"No more commands to execute...">>)

\* Where spin stands in its count of calls: never more recv calls than the
\* file's lines and one, never more execute calls than lines; spin is done
\* only with no line left, after one recv call more than the file had
\* lines and one execute call per line, with the notice printed once, last.
SpinCounts ==
    /\ counts.recv <= counts.file + 1
    /\ counts.execute <= counts.file
    /\ counts.recv + Len(commands)
           = counts.file + (IF pc = "done" THEN 1 ELSE 0)
    /\ pc = "done" =>
          /\ Len(commands) = 0
          /\ counts.recv = counts.file + 1
          /\ counts.execute = counts.file
          /\ Len(Notices) = 1
          /\ output[Len(output)] = <<"No more commands to execute...">>
    /\ pc # "done" => Len(Notices) = 0

\* C17: on a file of k lines spin terminates; when it has, recv was called
\* k+1 times and execute k times, no line is left, and the completion
\* notice was printed exactly once; before that it is never printed.
C17_SpinTerminates == []SpinCounts /\ <>(pc = "done")

\* C17's case: spin is done with a file of two lines or more.
C17_Witness ==
    /\ pc = "done"
    /\ counts.file >= 2
    /\ counts.execute = counts.file

\* What the execute of the command cmd gives on the robot as it stands.
ExecuteOf(cmd) ==
    CASE cmd.type = "Nop" -> NopExecute(grid, robot, cmd)
      [] cmd.type = "Place" -> PlaceExecute(grid, robot, cmd)
      [] cmd.type = "Move" -> MoveExecute(grid, robot, cmd)
      [] cmd.type = "Turn" -> TurnExecute(grid, robot, cmd)
      [] cmd.type = "Report" -> ReportExecute(grid, robot, cmd)

\* The step spin takes with a command in hand: it executes that command,
\* the one the last recv call supplied, on the robot as it stands, once,
\* takes no line from the file, and goes back to recv whatever the
\* command returned.
ExecutesSupplied ==
    pc = "execute" =>
        /\ counts.recv = counts.execute + 1
        /\ counts'.execute = counts.execute + 1
        /\ counts'.recv = counts.recv
        /\ command' = command
        /\ commands' = commands
        /\ coordinates' = ExecuteOf(command).coordinates
        /\ direction' = ExecuteOf(command).direction
        /\ result'.ret = ExecuteOf(command).ret
        /\ pc' = "recv"

\* The step spin takes when it asks for a command: no command is executed,
\* and the robot stays as it is.
ReceivesOnly ==
    pc = "recv" =>
        /\ counts.recv = counts.execute
        /\ counts'.execute = counts.execute
        /\ UNCHANGED <<coordinates, direction>>

\* The last execute call returned false.
ReturnedFalse ==
    /\ pc # "execute"
    /\ command.type \in {"Place", "Move", "Turn", "Report"}
    /\ ~result.ret

\* C18: spin executes each command recv supplies, once, before it asks for
\* the next; a command that returns false leaves the robot as it was and
\* spin at its next recv call, and every command still to come is executed:
\* spin ends having executed as many commands as the file has lines.
C18_FalseNeverHalts ==
    /\ [][ExecutesSupplied /\ ReceivesOnly]_vars
    /\ [](ReturnedFalse =>
             /\ pc = "recv"
             /\ coordinates = before.coordinates
             /\ direction = before.direction)
    /\ (ReturnedFalse ~> (pc = "done" /\ counts.execute = counts.file))

\* C18's case: a MOVE came first and returned false, and two commands
\* later a REPORT has been executed on the robot a PLACE had placed.
C18_Witness ==
    /\ Len(output) >= 1
    /\ output[1] =
           <<"Robot not yet placed on grid. Move command not possible.">>
    /\ counts.execute >= 3
    /\ Executed("Report")
    /\ result.ret

\* C19: a robot is created unplaced; at every moment it is placed exactly
\* when some execute call of a PlaceRobotCommand has returned true; and a
\* Move, Turn, Report or Nop executed on an unplaced robot leaves it
\* unplaced.
C19_PlacedOnlyByPlace ==
    /\ counts.execute = 0 =>
           coordinates = NoCoordinates /\ direction = None
    /\ is_on_grid(robot) <=> counts.placed
    /\ \A t \in {"Move", "Turn", "Report", "Nop"} :
           Executed(t) /\ ~is_on_grid(before) => ~is_on_grid(robot)

\* C19's case: a Turn has been executed on a robot an earlier Place had
\* placed.
C19_Witness ==
    /\ Executed("Turn")
    /\ result.ret
    /\ counts.placed
    /\ is_on_grid(robot)
    /\ counts.execute >= 2

\* The last execute call was of a Place that names no cell of the grid.
PlaceOutside == Executed("Place") /\ ~InsideGrid(command.coordinates)

\* The line l is a well-formed PLACE line that names a cell of the grid.
PlaceLineOnGrid(l) ==
    LET text == strip(l, Newline)
    IN /\ Keyword(text) = <<"PLACE">>
       /\ ThreeFieldPlace(text)
       /\ LET f == split(split(text, Space)[2], Comma)
          IN int(f[1]) < grid.size /\ int(f[2]) < grid.size

\* C20: as long as no Place has returned true the output has no line that
\* starts with `Output: `; a Place that names no cell of the grid returns
\* false; and as long as no line read is a well-formed PLACE line that
\* names a cell of the grid (the lines are MOVE, LEFT, RIGHT, REPORT,
\* lines that are no command and PLACE lines on invalid cells), the
\* output has no `Output: ` line.
C20_NoReportBeforePlace ==
    /\ ~counts.placed => OutputLines = <<>>
    /\ PlaceOutside => ~result.ret /\ (counts.placed <=> is_on_grid(before))
    /\ (\A i \in DOMAIN counts.lines : ~PlaceLineOnGrid(counts.lines[i]))
           => OutputLines = <<>>

\* The lines of the file [`PLACE x,y,D`, `MOVE`, `REPORT`].
PlaceMoveReport(x, y, d) ==
    <<PlaceText(x, y, d) \o <<Newline>>, <<"MOVE", Newline>>, <<"REPORT">> >>

\* Where a MOVE leaves a robot at c facing d on a grid of side n: on the
\* cell ahead when the grid has it, on c when it has not.
AfterMove(c, d, n) ==
    LET a == Ahead(c, d)
    IN IF 0 <= xOf(a) /\ xOf(a) < n /\ 0 <= yOf(a) /\ yOf(a) < n
       THEN a ELSE c

\* C21: on the size-5 grid, for every cell (x, y) and direction D, when
\* spin is done with the file [`PLACE x,y,D`, `MOVE`, `REPORT`] the output
\* has exactly one `Output: ` line, and it names the cell ahead of (x, y)
\* in direction D, or (x, y) itself at the boundary, and D.
C21_PlaceMoveReport ==
    \A x \in 0 .. AppGridSize - 1, y \in 0 .. AppGridSize - 1,
       d \in Direction :
        (pc = "done" /\ counts.lines = PlaceMoveReport(x, y, d)) =>
            OutputLines =
                <<OutputLine([coordinates |->
                                  AfterMove(<<x, y>>, d, AppGridSize),
                              direction |-> d])>>

\* C21's case: spin is done with scenario C, whose MOVE faces the
\* boundary, and has printed `Output: 4,4,NORTH`.
C21_Witness ==
    /\ pc = "done"
    /\ grid.size = AppGridSize
    /\ counts.lines = PlaceMoveReport(4, 4, "NORTH")
    /\ OutputLines = << <<"Output: ", "4", ",", "4", ",", "NORTH">> >>

\* The links ns are symmetric: A links to B via D implies B links to A via
\* opposite(D).
Symmetric(ns) ==
    \A a \in DOMAIN ns : \A d \in Direction :
        ns[a][d] # NoCell => ns[ns[a][d]][opposite(d)] = a

\* C22: after every set_neighbour call a.set_neighbour(b, d): if a already
\* had a link in direction d, or b already had one in opposite(d), the
\* call raised and no link changed; and the links are symmetric.
C22_WriteOnce ==
    query.op = "set_neighbour" =>
        /\ (\/ query.prev[query.a][query.d] # NoCell
            \/ query.prev[query.b][opposite(query.d)] # NoCell) =>
               query.raised /\ query.cells = query.prev
        /\ Symmetric(query.cells)

\* The cell the lattice of side n has one step from a in direction d, if
\* it has one.
LatticeNeighbour(a, d, n) ==
    IF Ahead(a, d) \in CellIds(n) THEN Ahead(a, d) ELSE NoCell

\* C23: the construction of SquareGrid(n) raises nothing, for n = 0 too;
\* its cells are those of the n x n lattice, each linked in each direction
\* to the cell the lattice has there and to no other; and A's neighbour in
\* D is B exactly when B's neighbour in opposite(D) is A.
C23_GridLinks ==
    /\ ~grid.raised
    /\ DOMAIN grid.neighbours = CellIds(grid.size)
    /\ \A a \in CellIds(grid.size) : \A d \in Direction :
           grid.neighbours[a][d] = LatticeNeighbour(a, d, grid.size)
    /\ \A a \in CellIds(grid.size) : \A b \in CellIds(grid.size) :
           \A d \in Direction :
               grid.neighbours[a][d] = b
                   <=> grid.neighbours[b][opposite(d)] = a

\* C23's case: a grid of side 2 or more, whose cell (0, 0) is linked east
\* and north and whose cell (1, 1) is linked back west and south.
C23_Witness ==
    /\ grid.size >= 2
    /\ grid.neighbours[<<0, 0>>]["EAST"] = <<1, 0>>
    /\ grid.neighbours[<<0, 0>>]["NORTH"] = <<0, 1>>
    /\ grid.neighbours[<<1, 1>>]["WEST"] = <<0, 1>>
    /\ grid.neighbours[<<1, 1>>]["SOUTH"] = <<1, 0>>

\* C24: no step of a run changes the grid (its size, its cells or their
\* links), whatever command it executes and whatever that command asks of
\* the grid, and no step raises: the RuntimeError of set_neighbour is out
\* of reach of the commands.
C24_GridImmutable ==
    /\ [][grid' = grid]_vars
    /\ [](result.raised = None /\ ~grid.raised /\ pc # "crashed")

\* C24's case: a Place was refused, and later a Move has failed at the
\* boundary of a grid that has cells: both have asked the grid.
C24_Witness ==
    /\ grid.size >= 1
    /\ Executed("Move")
    /\ is_on_grid(before)
    /\ ~result.ret
    /\ \E i \in DOMAIN output : output[i][1] = "Cell with coordinates "

\* The step recv takes for spin: with no line left it returns None and
\* spin is done; with a line left it pops the first line of the file,
\* whatever its text, and delivers the command generate_command makes of
\* it, and spin goes on to execute it.
RecvDelivers ==
    pc = "recv" =>
        /\ pc' = "done" <=> Len(commands) = 0
        /\ Len(commands) >= 1 =>
               /\ commands' = Tail(commands)
               /\ line' \in Texts(Head(commands))
               /\ counts'.lines = Append(counts.lines, line')
               /\ command' = generate_command(strip(line', Newline)).command
               /\ pc' = "execute"

\* The last line read was executed and is no command by the grammar: it
\* is blank or unparseable.
BadLineExecuted ==
    /\ pc = "recv"
    /\ counts.execute >= 1
    /\ ~WellFormed(strip(line, Newline))

\* C25: recv returns None exactly when no line of the file is left, and
\* no line ever comes back, so it would return None from then on; with a
\* line left it delivers the command of the first line left, one line per
\* call, so that spin is done only when every line was read; and a line
\* that is blank or unparseable leaves the robot as it was.
C25_RecvStream ==
    /\ [][RecvDelivers /\ Len(commands') <= Len(commands)]_vars
    /\ [](pc = "done" =>
             Len(commands) = 0 /\ Len(counts.lines) = counts.file)
    /\ [](BadLineExecuted =>
             /\ coordinates = before.coordinates
             /\ direction = before.direction)

\* C26: the object the robot stores is never one the caller holds (the
\* getter hands out a new object, the setter stores a new one), and no
\* change the caller makes to an object it holds (one it got from
\* robot.coordinates, one it gave to the setter, one a Place command that
\* has executed holds) changes the robot's stored coordinates.
C26_NoAliasing ==
    /\ [](query.m.stored \notin query.m.held)
    /\ [](coordinates = StoredValue(query.m))
    /\ [][query'.op = "mutate" => coordinates' = coordinates]_vars

\* C26's case: the robot was placed by a Place command on (0, 0), and the
\* caller has since changed an object it holds to (1, 1).
C26_Witness ==
    /\ query.op = "mutate"
    /\ coordinates = <<0, 0>>
    /\ direction # None
    /\ \E c \in query.m.held : query.m.heap[c] = <<1, 1>>

\* C27: once the robot is placed it is placed after every later step,
\* whatever command is executed and whatever it returns; no step clears
\* the coordinates or the direction.
C27_PlacementStable ==
    /\ [][is_on_grid(robot) =>
             coordinates' # NoCoordinates /\ direction' # None]_vars
    /\ [][coordinates # NoCoordinates => coordinates' # NoCoordinates]_vars
    /\ [][direction # None => direction' # None]_vars

\* C27's case: a Place was refused on a robot that was placed, and the
\* robot is still placed.
C27_Witness ==
    /\ Executed("Place")
    /\ ~result.ret
    /\ is_on_grid(before)
    /\ is_on_grid(robot)

\* C28: in every state of a run the coordinates and the direction are
\* both absent or both present, so that the robot is placed exactly when
\* it has coordinates, and exactly when it has a direction.
C28_BothOrNeither ==
    /\ coordinates = NoCoordinates <=> direction = None
    /\ is_on_grid(robot) <=> coordinates # NoCoordinates
    /\ is_on_grid(robot) <=> direction # None

\* C28's case: a Turn came first, on the robot as created, and a Move has
\* since succeeded on the robot a Place had placed.
C28_Witness ==
    /\ Len(output) >= 1
    /\ output[1] =
           <<"Robot not yet placed on grid. Turn command not possible.">>
    /\ Executed("Move")
    /\ result.ret
    /\ coordinates # NoCoordinates
    /\ direction # None

\* The lines [`PLACE x,y,D`, `MOVE`, t, t, `MOVE`], t a turn.
MoveTurnTurnMove(x, y, d, t) ==
    <<PlaceText(x, y, d) \o <<Newline>>, <<"MOVE", Newline>>,
      <<t, Newline>>, <<t, Newline>>, <<"MOVE">> >>

\* The lines [`PLACE x,y,D`, s, t, u], s a MOVE or a blank line, t and u
\* the two turns in either order.
ThenLeftRight(x, y, d, s, t, u) ==
    <<PlaceText(x, y, d) \o <<Newline>>, s \o <<Newline>>,
      <<t, Newline>>, <<u, Newline>> >>

\* C29: on the size-5 grid, for every cell (x, y) and direction D whose
\* Move succeeds (the lattice has a cell ahead), after PLACE x,y,D, MOVE,
\* two turns of the same rotation and a second MOVE, that second MOVE has
\* returned true and the robot is on (x, y) facing opposite(D); and a LEFT
\* followed by a RIGHT, or a RIGHT by a LEFT, leaves the robot facing as
\* before, on the same cell.
C29_MoveReversible ==
    \A x \in 0 .. AppGridSize - 1, y \in 0 .. AppGridSize - 1,
       d \in Direction :
        /\ \A t \in {"LEFT", "RIGHT"} :
               (/\ pc = "recv"
                /\ counts.execute = 5
                /\ counts.lines = MoveTurnTurnMove(x, y, d, t)
                /\ AfterMove(<<x, y>>, d, AppGridSize) # <<x, y>>) =>
                   /\ result.ret
                   /\ coordinates = <<x, y>>
                   /\ direction = opposite(d)
        /\ \A s \in {<<"MOVE">>, <<>>} :
               \A t \in {"LEFT", "RIGHT"} : \A u \in {"LEFT", "RIGHT"} \ {t} :
                   (/\ pc = "recv"
                    /\ counts.execute = 4
                    /\ counts.lines = ThenLeftRight(x, y, d, s, t, u)) =>
                       /\ result.ret
                       /\ direction = d
                       /\ coordinates =
                              IF s = <<>> THEN <<x, y>>
                              ELSE AfterMove(<<x, y>>, d, AppGridSize)

\* C29's case: from (2, 3) facing WEST the robot has moved, turned left
\* twice and moved again, and is back on (2, 3) facing EAST.
C29_Witness ==
    /\ pc = "recv"
    /\ counts.execute = 5
    /\ counts.lines = MoveTurnTurnMove(2, 3, "WEST", "LEFT")
    /\ result.ret
    /\ before.coordinates = <<1, 3>>
    /\ coordinates = <<2, 3>>
    /\ direction = "EAST"

====
